---- MODULE Spec2Model ----
(***************************************************************************)
(* Model of the ChildSafe assistant query pipeline:                        *)
(*   backend/app/api.py           run_query (POST /query)                  *)
(*   backend/app/langchain_rag.py smart_query (the orchestrator)           *)
(*   backend/app/web_search.py    search_articles, tavily_search,          *)
(*                                google_search                            *)
(*   backend/app/rag.py           query_rag                                *)
(* Strings are sequences of one-character strings, so that strip(),        *)
(* lower(), slicing, concatenation and the substring test `in` are         *)
(* computed character by character as Python computes them.                *)
(***************************************************************************)
EXTENDS Integers, Sequences, FiniteSets, TLC

\* ------------------------------------------------------------------------
\* Bounds of the model
\* ------------------------------------------------------------------------
\* largest top_k a request carries (requests carry -1 .. MaxTopK)
MaxTopK == 2
\* largest number of raw results a search backend hands back
MaxRaw == 2

\* ------------------------------------------------------------------------
\* Python string operations
\* ------------------------------------------------------------------------
UPPERCASE == <<"A","B","C","D","E","F","G","H","I","J","K","L","M","N","O","P","Q","R","S","T","U","V","W","X","Y","Z">>

LOWERCASE == <<"a","b","c","d","e","f","g","h","i","j","k","l","m","n","o","p","q","r","s","t","u","v","w","x","y","z">>

WHITESPACE == {" ", "\n", "\t", "\r"}

\* str.lower() on one character
LowerChar(c) ==
    IF \E i \in 1..26 : UPPERCASE[i] = c
    THEN LOWERCASE[CHOOSE i \in 1..26 : UPPERCASE[i] = c]
    ELSE c

\* str.lower()
Lower(s) == [i \in 1..Len(s) |-> LowerChar(s[i])]

\* str.strip(): drop leading and trailing whitespace
Strip(s) ==
    LET keep == {i \in 1..Len(s) : s[i] \notin WHITESPACE}
    IN  IF keep = {} THEN << >>
        ELSE LET lo == CHOOSE i \in keep : \A j \in keep : i <= j
                 hi == CHOOSE i \in keep : \A j \in keep : j <= i
             IN  SubSeq(s, lo, hi)

\* the substring test  sub in s
Contains(sub, s) ==
    \E i \in 1..(Len(s) - Len(sub) + 1) : SubSeq(s, i, i + Len(sub) - 1) = sub

\* sep.join(parts)
RECURSIVE Join(_, _)
Join(sep, parts) ==
    IF parts = << >> THEN << >>
    ELSE IF Len(parts) = 1 THEN parts[1]
    ELSE parts[1] \o sep \o Join(sep, Tail(parts))

\* the slice s[:n]; a negative n counts from the end
SliceTo(s, n) ==
    LET m == IF n < 0 THEN Len(s) + n ELSE n
    IN  SubSeq(s, 1, IF m < 0 THEN 0 ELSE IF m < Len(s) THEN m ELSE Len(s))

DIGITS == <<"0","1","2","3","4","5","6","7","8","9">>

\* str(n) for an integer n >= 0
RECURSIVE IntToStr(_)
IntToStr(n) ==
    IF n < 10 THEN <<DIGITS[n + 1]>>
    ELSE IntToStr(n \div 10) \o <<DIGITS[(n % 10) + 1]>>

\* ------------------------------------------------------------------------
\* Fixed strings of the program
\* ------------------------------------------------------------------------
FALLBACK_WEB ==
    <<"N","o"," ","r","e","l","e","v","a","n","t"," ","C","h","i","l","d","S","a","f","e"," ","S","o","u","t","h"," ","A","f","r","i","c","a"," ","i","n","f","o","r","m","a","t","i","o","n"," ","f","o","u","n","d",".">>

FALLBACK_LOCAL ==
    <<"N","o"," ","r","e","l","e","v","a","n","t"," ","i","n","f","o","r","m","a","t","i","o","n"," ","f","o","u","n","d"," ","i","n"," ","C","h","i","l","d","S","a","f","e"," ","r","e","p","o","r","t","s",".">>

MSG_NO_ARTICLES ==
    <<"N","o"," ","r","e","l","e","v","a","n","t"," ","a","r","t","i","c","l","e","s"," ","f","o","u","n","d",".">>

MSG_NO_SERP_KEY ==
    <<"N","o"," ","S","E","R","P","A","P","I","_","A","P","I","_","K","E","Y"," ","c","o","n","f","i","g","u","r","e","d",".">>

MSG_NO_RESULTS ==
    <<"N","o"," ","s","e","a","r","c","h"," ","r","e","s","u","l","t","s"," ","f","o","u","n","d",".">>

MSG_NO_ORGANIC ==
    <<"N","o"," ","o","r","g","a","n","i","c"," ","r","e","s","u","l","t","s"," ","f","o","u","n","d",".">>

MSG_NO_KEYS ==
    <<"N","o"," ","s","e","a","r","c","h"," ","A","P","I"," ","k","e","y","s"," ","c","o","n","f","i","g","u","r","e","d","."," ","P","l","e","a","s","e"," ","s","e","t"," ","S","E","R","P","A","P","I","_","A","P","I","_","K","E","Y"," ","o","r"," ","T","A","V","I","L","Y","_","A","P","I","_","K","E","Y",".">>

MSG_SEARCH_ERROR ==
    <<"S","e","a","r","c","h"," ","e","r","r","o","r",":"," ">>

ENHANCE_SUFFIX ==
    <<" ","C","h","i","l","d","S","a","f","e"," ","S","o","u","t","h"," ","A","f","r","i","c","a"," ","c","h","i","l","d"," ","s","a","f","e","t","y">>

childsafe_keywords ==
    << <<"c","h","i","l","d","s","a","f","e">>,
       <<"c","h","i","l","d"," ","s","a","f","e">>,
       <<"c","h","i","l","d"," ","s","a","f","e","t","y">>,
       <<"c","h","i","l","d","r","e","n","'","s"," ","s","a","f","e","t","y">>,
       <<"c","h","i","l","d"," ","p","r","o","t","e","c","t","i","o","n">>,
       <<"s","o","u","t","h"," ","a","f","r","i","c","a"," ","c","h","i","l","d">> >>

S_childsafe == <<"c","h","i","l","d","s","a","f","e">>

S_child_safe == <<"c","h","i","l","d"," ","s","a","f","e">>

S_report == <<"r","e","p","o","r","t">>

S_web == <<"w","e","b">>

S_tavily == <<"t","a","v","i","l","y">>

S_google == <<"g","o","o","g","l","e">>

\* ------------------------------------------------------------------------
\* Inputs: requests, environment and the outputs of the collaborators
\* ------------------------------------------------------------------------
\* the "query" field of a request body; the empty string is falsy
Queries ==
    { << >>,
      <<"l","a","t","e","s","t"," ","n","e","w","s">>,
      <<"w","h","o"," ","i","s"," ","C","h","i","l","d","S","a","f","e">> }

\* the "top_k" field of a request body
TopKs == (-1)..MaxTopK

\* the environments the process can be started in
SearchModeValues == { <<"t","a","v","i","l","y">>, <<"G","o","o","g","l","e">>, <<"b","i","n","g">> }

Environments ==
    { [n \in names |-> IF n = "SEARCH_MODE" THEN mode ELSE <<"k","e","y">>] :
        names \in SUBSET {"SEARCH_MODE", "TAVILY_API_KEY", "SERPAPI_API_KEY"},
        mode \in SearchModeValues }

\* os.getenv(name, default); None is modelled by the empty (falsy) string
getenv(e, name, default) == IF name \in DOMAIN e THEN e[name] ELSE default

\* an exception raised by a collaborator
Raise(msg) == [kind |-> "raise", msg |-> msg]

IsRaise(o) == o.kind = "raise"

ErrorMessages == { <<"t","i","m","e","o","u","t">> }

\* raw text the language model can hand back for the intent prompt
ClassifierOutputs ==
    { <<"w","e","b">>, <<" ","W","e","b","\n">>, <<"W","E","B">>, <<"w","e","b",".">>, <<"w","e","b","s","i","t","e">>, << >>,
      <<"l","o","c","a","l">>, <<"L","o","c","a","l">>, <<"m","a","y","b","e">> }

\* raw text the language model can hand back for the rewrite prompt
RewriterOutputs ==
    { <<"C","h","i","l","d","S","a","f","e"," ","a","n","n","u","a","l"," ","r","e","p","o","r","t">>, <<"n","e","w","s">> }

\* raw text the language model can hand back for the two answer prompts
SynthesizerOutputs ==
    { <<"C","h","i","l","d","S","a","f","e"," ","h","e","l","p","s",".">>, <<"C","H","I","L","D","S","A","F","E">>, <<"S","e","e"," ","t","h","e"," ","2","0","1","9"," ","R","e","p","o","r","t"," ","(","p","a","g","e"," ","5",")",".">>,
      <<"I","t"," ","i","s"," ","s","u","n","n","y",".">>, << >>, FALLBACK_WEB, FALLBACK_LOCAL }

LLMOutcomes(outputs) ==
    { [kind |-> "text", text |-> t] : t \in outputs }
    \cup { Raise(m) : m \in ErrorMessages }

\* results the Tavily API can hand back
TavilyPool ==
    { [title |-> <<"C","h","i","l","d","S","a","f","e"," ","S","A">>, url |-> <<"u","1">>, content |-> <<"R","o","a","d"," ","n","e","w","s">>],
      [title |-> <<"W","e","a","t","h","e","r">>,      url |-> <<"u","2">>, content |-> <<"R","a","i","n">>],
      [title |-> <<"C","h","i","l","d">>,        url |-> <<"u","3">>, content |-> <<"s","a","f","e"," ","r","o","a","d","s">>] }

\* organic results SerpApi can hand back
GooglePool ==
    { [title |-> <<"C","h","i","l","d"," ","P","r","o","t","e","c","t","i","o","n"," ","w","e","e","k">>, link |-> <<"g","1">>, snippet |-> <<"E","v","e","n","t","s">>],
      [title |-> <<"S","p","o","r","t","s">>,                link |-> <<"g","2">>, snippet |-> <<"S","c","o","r","e","s">>] }

\* all sequences over S of length at most n
SeqsUpTo(S, n) == UNION { [1..k -> S] : k \in 0..n }

\* passages of the indexed collection
Passages ==
    << [doc  |-> <<"C","h","i","l","d","S","a","f","e"," ","t","r","a","i","n","e","d"," ","5","0","0"," ","c","h","i","l","d","r","e","n",".">>,
        meta |-> [report_year |-> <<"2","0","1","9","-","2","0","2","0">>, page |-> 5]],
       [doc  |-> <<"I","n","c","o","m","e"," ","r","o","s","e",".">>,
        meta |-> [report_year |-> <<"2","0","2","1">>, page |-> 12]] >>

\* rankings of distinct passages of length at most n
Rankings(n) ==
    { r \in SeqsUpTo(1..Len(Passages), n) :
        \A i, j \in 1..Len(r) : i # j => r[i] # r[j] }

\* ------------------------------------------------------------------------
\* web_search.py
\* ------------------------------------------------------------------------
Return(v) == [kind |-> "return", value |-> v]

\* one logged invocation of a collaborator
Call(op, arg) == [op |-> op, arg |-> arg]

\* what an invoked collaborator did
Outcome(op, o) == [op |-> op, out |-> o]

\* SEARCH_MODE as the module's import leaves it
SEARCH_MODE(e, tavilyImportable) ==
    LET mode == Lower(getenv(e, "SEARCH_MODE", S_tavily))
    IN  IF mode = S_tavily /\ ~tavilyImportable THEN S_google ELSE mode

\* the query sent to the search backend
EnhancedQuery(q) ==
    IF ~Contains(S_childsafe, Lower(q)) /\ ~Contains(S_child_safe, Lower(q))
    THEN q \o ENHANCE_SUFFIX
    ELSE q

\* any(keyword in text for keyword in childsafe_keywords)
MatchesKeywords(text) ==
    \E i \in 1..Len(childsafe_keywords) : Contains(childsafe_keywords[i], text)

\* is_childsafe_related of tavily_search if it looked at the title only
TavilyRelated_TitleOnly(r) == MatchesKeywords(Lower(r.title))

\* is_childsafe_related of tavily_search
TavilyRelated(r) == MatchesKeywords(Lower(r.title \o <<" ">> \o r.content))

\* is_childsafe_related of google_search
GoogleRelated(r) == MatchesKeywords(Lower(r.title \o <<" ">> \o r.snippet))

TavilyPart(r) ==
    <<"*","*">> \o r.title \o <<"*","*","\n">> \o SliceTo(r.content, 200)
        \o <<".",".",".","\n","[","R","e","a","d"," ","m","o","r","e","]","(">> \o r.url \o <<")">>

GooglePart(r) ==
    <<"*","*">> \o r.title \o <<"*","*","\n">> \o r.snippet
        \o <<"\n","[","R","e","a","d"," ","m","o","r","e","]","(">> \o r.link \o <<")">>

SearchResult(q, articles, answer) ==
    [query |-> q, articles |-> articles, answer |-> answer]

\* tavily_search without the relevance filter
tavily_search_NoFilter(q, max_results, o) ==
    LET call == Call("tavily", [q |-> EnhancedQuery(q), n |-> max_results])
    IN  IF IsRaise(o) THEN [out |-> o, calls |-> <<call>>]
        ELSE IF o.results = << >>
        THEN [out |-> Return(SearchResult(q, << >>, MSG_NO_ARTICLES)),
              calls |-> <<call>>]
        ELSE [out |-> Return(SearchResult(q, o.results,
                         Join(<<"\n","\n">>,
                              [i \in 1..Len(o.results) |-> TavilyPart(o.results[i])]))),
              calls |-> <<call>>]

\* tavily_search(query, max_results), given what the Tavily API does;
\* the API's exception is not caught
tavily_search(q, max_results, o) ==
    LET call == Call("tavily", [q |-> EnhancedQuery(q), n |-> max_results])
        childsafe_results == SelectSeq(o.results, TavilyRelated)
    IN  IF IsRaise(o) THEN [out |-> o, calls |-> <<call>>]
        ELSE IF o.results = << >>
        THEN [out |-> Return(SearchResult(q, << >>, MSG_NO_ARTICLES)),
              calls |-> <<call>>]
        ELSE IF childsafe_results = << >>
        THEN [out |-> Return(SearchResult(q, << >>, FALLBACK_WEB)),
              calls |-> <<call>>]
        ELSE [out |-> Return(SearchResult(q, childsafe_results,
                         Join(<<"\n","\n">>,
                              [i \in 1..Len(childsafe_results) |->
                                  TavilyPart(childsafe_results[i])]))),
              calls |-> <<call>>]

\* what the Tavily API can do for a search of at most n results
TavilyOutcomes(n) ==
    { [kind |-> "results", results |-> rs] :
        rs \in SeqsUpTo(TavilyPool, IF n < MaxRaw THEN (IF n < 0 THEN 0 ELSE n) ELSE MaxRaw) }
    \cup { Raise(m) : m \in ErrorMessages }

\* what one SerpApi client can do: raise, hand back nothing (None or an
\* empty mapping), a mapping without organic results, or organic results
GoogleOutcomes ==
    { [kind |-> "dict", has_organic |-> TRUE, organic |-> rs] :
        rs \in SeqsUpTo(GooglePool, MaxRaw) }
    \cup { [kind |-> "dict", has_organic |-> FALSE, organic |-> << >>],
           [kind |-> "none"] }
    \cup { Raise(m) : m \in ErrorMessages }

\* the three clients google_search tries in turn: the serpapi client, then
\* the two legacy wrappers, each tried only after the previous one raised
GoogleAttempts ==
    { [kind |-> "attempts", attempts |-> as] :
        as \in { <<o1>> : o1 \in {o \in GoogleOutcomes : ~IsRaise(o)} }
          \cup { <<o1, o2>> : o1 \in {o \in GoogleOutcomes : IsRaise(o)},
                              o2 \in {o \in GoogleOutcomes : ~IsRaise(o)} }
          \cup { <<o1, o2, o3>> : o1 \in {o \in GoogleOutcomes : IsRaise(o)},
                                  o2 \in {o \in GoogleOutcomes : IsRaise(o)},
                                  o3 \in GoogleOutcomes } }

\* google_search(query, max_results), given what the clients do
google_search(q, max_results, api_key, o) ==
    LET os == o.attempts
        arg == [q |-> EnhancedQuery(q), n |-> max_results]
        calls == [i \in 1..Len(os) |->
                    Call(IF i = 1 THEN "serpapi" ELSE "serpapi_legacy", arg)]
        results == os[Len(os)]
        organic == IF results.kind = "dict" /\ results.has_organic
                   THEN results.organic ELSE << >>
        articles == SliceTo(organic, max_results)
        childsafe_articles == SelectSeq(articles, GoogleRelated)
    IN  IF api_key = << >>
        THEN [out |-> Return(SearchResult(q, << >>, MSG_NO_SERP_KEY)),
              calls |-> << >>]
        ELSE IF IsRaise(results)
        THEN [out |-> Return(SearchResult(q, << >>,
                         MSG_SEARCH_ERROR \o os[1].msg \o <<" ","/"," ">> \o results.msg)),
              calls |-> calls]
        ELSE IF results.kind = "none"
        THEN [out |-> Return(SearchResult(q, << >>, MSG_NO_RESULTS)),
              calls |-> calls]
        ELSE IF organic = << >>
        THEN [out |-> Return(SearchResult(q, << >>, MSG_NO_ORGANIC)),
              calls |-> calls]
        ELSE IF childsafe_articles = << >>
        THEN [out |-> Return(SearchResult(q, << >>, FALLBACK_WEB)),
              calls |-> calls]
        ELSE [out |-> Return(SearchResult(q, childsafe_articles,
                         Join(<<"\n","\n">>,
                              [i \in 1..Len(childsafe_articles) |->
                                  GooglePart(childsafe_articles[i])]))),
              calls |-> calls]

\* the dispatch if a missing credential made it try the other backend
SelectedBackend_TryOther(e, importable) ==
    IF getenv(e, "SERPAPI_API_KEY", << >>) # << >>
       /\ (SEARCH_MODE(e, importable) = S_google
           \/ getenv(e, "TAVILY_API_KEY", << >>) = << >>)
    THEN "google"
    ELSE IF getenv(e, "TAVILY_API_KEY", << >>) # << >>
    THEN "tavily"
    ELSE "none"

\* the backend search_articles dispatches to: "google", "tavily" or "none"
SelectedBackend(e, importable) ==
    IF SEARCH_MODE(e, importable) = S_google
       /\ getenv(e, "SERPAPI_API_KEY", << >>) # << >>
    THEN "google"
    ELSE IF SEARCH_MODE(e, importable) = S_tavily
            /\ getenv(e, "TAVILY_API_KEY", << >>) # << >>
    THEN "tavily"
    ELSE "none"

\* what the selected backend's collaborators can do
BackendOutcomes(backend, max_results) ==
    IF backend = "google" THEN GoogleAttempts
    ELSE IF backend = "tavily" THEN TavilyOutcomes(max_results)
    ELSE { [kind |-> "unused"] }

\* search_articles(query, max_results), given what the backend does
search_articles(e, tavilyImportable, q, max_results, o) ==
    LET backend == SelectedBackend(e, tavilyImportable)
    IN  IF backend = "google"
        THEN google_search(q, max_results, getenv(e, "SERPAPI_API_KEY", << >>), o)
        ELSE IF backend = "tavily"
        THEN tavily_search(q, max_results, o)
        ELSE [out |-> Return(SearchResult(q, << >>, MSG_NO_KEYS)),
              calls |-> << >>]

\* ------------------------------------------------------------------------
\* langchain_rag.py
\* ------------------------------------------------------------------------
\* retries the language-model client makes by itself
max_retries == 0

\* results smart_query asks the web search for
WEB_MAX_RESULTS == 5

\* the invocations of a client that repeats a failing call once more
LLMAttempts_Retry(o) == IF IsRaise(o) THEN 2 + max_retries ELSE 1

\* the invocations one chain.invoke() makes of the model: a failing call is
\* repeated max_retries times before the failure is raised
LLMAttempts(o) == IF IsRaise(o) THEN 1 + max_retries ELSE 1

LLMCalls(prompt, arg, o) == [i \in 1..LLMAttempts(o) |-> Call(prompt, arg)]

\* .strip().lower() of the classifier's raw output
NormalizeIntent(raw) == Lower(Strip(raw))

\* the branch test if it looked for "web" anywhere in the label
IsWebIntent_Substring(i) == Contains(S_web, i)

\* if intent == "web"
IsWebIntent(i) == i = S_web

\* the web safeguard if it looked for the organization's site instead
WebGrounded_Url(a) == Contains(<<"c","h","i","l","d","s","a","f","e",".","o","r","g",".","z","a">>, Lower(a))

\* the web safeguard if it compared without lower-casing
WebGrounded_CaseSensitive(a) == Contains(S_childsafe, a)

\* "childsafe" in answer.lower()
WebGrounded(a) == Contains(S_childsafe, Lower(a))

\* the local safeguard if it asked for both markers
LocalGrounded_Both(a) ==
    Contains(S_childsafe, Lower(a)) /\ Contains(S_report, Lower(a))

\* "childsafe" in answer.lower() or "report" in answer.lower()
LocalGrounded(a) ==
    Contains(S_childsafe, Lower(a)) \/ Contains(S_report, Lower(a))

\* the Responses smart_query builds
WebFallbackResponse(q) ==
    [query |-> q, mode |-> "web", answer |-> FALLBACK_WEB, articles |-> << >>]

\* the web Response if it also carried the documents field
WebResponse_WithDocuments(q, a, arts) ==
    [query |-> q, mode |-> "web", answer |-> a, articles |-> arts,
     documents |-> << >>]

WebResponse(q, a, arts) ==
    [query |-> q, mode |-> "web", answer |-> a, articles |-> arts]

LocalEmptyResponse(q) ==
    [query |-> q, mode |-> "local", answer |-> FALLBACK_LOCAL]

\* the local fallback Response if it dropped what was retrieved
LocalFallbackResponse_Cleared(q, rw, docs, metas) ==
    [query |-> q, mode |-> "local", rewritten |-> rw,
     answer |-> FALLBACK_LOCAL, documents |-> << >>, metadatas |-> << >>]

LocalFallbackResponse(q, rw, docs, metas) ==
    [query |-> q, mode |-> "local", rewritten |-> rw,
     answer |-> FALLBACK_LOCAL, documents |-> docs, metadatas |-> metas]

LocalResponse(q, rw, a, docs, metas) ==
    [query |-> q, mode |-> "local", rewritten |-> rw,
     answer |-> a, documents |-> docs, metadatas |-> metas]

\* the runtime safeguard of web mode: the Response for the summary a
GroundWeb(q, a, arts) ==
    IF ~WebGrounded(a) THEN WebFallbackResponse(q) ELSE WebResponse(q, a, arts)

\* the runtime safeguard of local mode: the Response for the answer a
GroundLocal(q, rw, a, docs, metas) ==
    IF ~LocalGrounded(a) THEN LocalFallbackResponse(q, rw, docs, metas)
    ELSE LocalResponse(q, rw, a, docs, metas)

\* r.get("link", r.get("url", ""))
ArticleUrl(r) ==
    IF "link" \in DOMAIN r THEN r.link
    ELSE IF "url" \in DOMAIN r THEN r.url ELSE << >>

\* r.get("snippet", r.get("content", ""))
ArticleSnippet(r) ==
    IF "snippet" \in DOMAIN r THEN r.snippet
    ELSE IF "content" \in DOMAIN r THEN r.content ELSE << >>

\* articles_text: the articles as the summary prompt shows them
FormatArticles(arts) ==
    Join(<<"\n","\n">>,
         [i \in 1..Len(arts) |->
            <<"-"," ","T","i","t","l","e",":"," ">> \o arts[i].title \o <<"\n"," "," ","U","R","L",":"," ">> \o ArticleUrl(arts[i])
              \o <<"\n"," "," ","C","o","n","t","e","n","t",":"," ">> \o SliceTo(ArticleSnippet(arts[i]), 300) \o <<".",".",".">>])

\* context: the passages as the answer prompt shows them; zip() stops at the
\* shorter list
BuildContext(docs, metas) ==
    LET n == IF Len(docs) < Len(metas) THEN Len(docs) ELSE Len(metas)
    IN  Join(<<"\n","\n">>,
             [i \in 1..n |->
                <<"[","R","e","p","o","r","t",":"," ">> \o metas[i].report_year \o <<","," ","P","a","g","e"," ">>
                  \o IntToStr(metas[i].page) \o <<"]","\n">> \o docs[i]])

\* what the vector store can do for collection.query(n_results = k): the
\* connection, the collection lookup or the query raises, or up to k ranked
\* passages come back
ChromaOutcomes(k) ==
    { [kind |-> "results", ranking |-> r] : r \in Rankings(IF k < 0 THEN 0 ELSE k) }
    \cup { [kind |-> "raise", msg |-> m, stage |-> st] :
              m \in ErrorMessages, st \in {"connect", "query"} }

\* ------------------------------------------------------------------------
\* State
\* ------------------------------------------------------------------------
VARIABLES
    env,              \* the process environment
    tavilyImportable, \* whether `from tavily import TavilyClient` succeeds
    pc,               \* where the request being served stands
    query, top_k,     \* arguments of smart_query
    intent,           \* normalized classifier output
    results,          \* what search_articles returned
    articles,         \* the filtered articles
    rewritten,        \* the rewritten query
    documents, metadatas,  \* what the vector store returned
    answer,           \* the synthesized answer
    ret,              \* how smart_query ended: return value or exception
    http,             \* what run_query answers
    calls,            \* invocations of collaborators, in order
    outs,             \* what each invoked collaborator did, in order
    direct            \* a call of search_articles or query_rag made directly

vars == <<env, tavilyImportable, pc, query, top_k, intent, results, articles,
          rewritten, documents, metadatas, answer, ret, http, calls, outs,
          direct>>

config == <<env, tavilyImportable>>

locals == <<intent, results, articles, rewritten, documents, metadatas, answer>>

NoRet == [kind |-> "none"]

NoHttp == [status |-> 0]

NoResults == [kind |-> "none"]

NoDirect == [fn |-> "none"]

Init ==
    /\ env \in Environments
    /\ tavilyImportable \in BOOLEAN
    /\ pc = "idle"
    /\ query = << >>
    /\ top_k = 5
    /\ intent = << >>
    /\ results = NoResults
    /\ articles = << >>
    /\ rewritten = << >>
    /\ documents = << >>
    /\ metadatas = << >>
    /\ answer = << >>
    /\ ret = NoRet
    /\ http = NoHttp
    /\ calls = << >>
    /\ outs = << >>
    /\ direct = NoDirect

\* ------------------------------------------------------------------------
\* api.py
\* ------------------------------------------------------------------------
\* what run_query answers once smart_query has ended: the Response wrapped
\* in {"results": ...}; an exception is not caught and becomes a 500
HttpOf(r) ==
    IF r.kind = "none" THEN NoHttp
    ELSE IF IsRaise(r) THEN [status |-> 500]
    ELSE [status |-> 200, body |-> [results |-> r.value]]

\* POST /query with body {query: q, top_k: k}
RunQuery(q, k) ==
    /\ pc = "idle"
    /\ tavilyImportable
    /\ IF q = << >>
       THEN /\ http' = [status |-> 400, detail |-> <<"M","i","s","s","i","n","g"," ","'","q","u","e","r","y","'"," ","f","i","e","l","d">>]
            /\ pc' = "done"
            /\ UNCHANGED <<query, top_k>>
       ELSE /\ query' = q
            /\ top_k' = k
            /\ pc' = "classifying"
            /\ http' = NoHttp
    /\ UNCHANGED <<config, direct, locals, ret, calls, outs>>

\* ------------------------------------------------------------------------
\* smart_query, one action per collaborator invocation
\* ------------------------------------------------------------------------
\* the classification step if a failing call were caught and taken as local
AfterClassify_DefaultLocal(o) ==
    IF IsRaise(o)
    THEN [pc |-> "rewriting", intent |-> <<"l","o","c","a","l">>, ret |-> NoRet]
    ELSE [pc |-> IF IsWebIntent(NormalizeIntent(o.text))
                 THEN "searching" ELSE "rewriting",
          intent |-> NormalizeIntent(o.text),
          ret |-> NoRet]

\* STEP 1: intent detection and the branch on it
AfterClassify(o) ==
    IF IsRaise(o)
    THEN [pc |-> "done", intent |-> << >>, ret |-> o]
    ELSE [pc |-> IF IsWebIntent(NormalizeIntent(o.text))
                 THEN "searching" ELSE "rewriting",
          intent |-> NormalizeIntent(o.text),
          ret |-> NoRet]

Classify ==
    /\ pc = "classifying"
    /\ \E o \in LLMOutcomes(ClassifierOutputs) :
         LET n == AfterClassify(o)
         IN  /\ outs' = Append(outs, Outcome("intent", o))
             /\ calls' = calls \o LLMCalls("intent", [query |-> query], o)
             /\ pc' = n.pc
             /\ intent' = n.intent
             /\ ret' = n.ret
             /\ http' = HttpOf(n.ret)
    /\ UNCHANGED <<config, direct, query, top_k, results, articles, rewritten,
                   documents, metadatas, answer>>

\* the search step without the test for no articles
AfterSearch_NoCheck(q, out) ==
    IF IsRaise(out)
    THEN [pc |-> "done", results |-> NoResults, articles |-> << >>, ret |-> out]
    ELSE [pc |-> "summarizing", results |-> out.value,
          articles |-> out.value.articles, ret |-> NoRet]

\* STEP 2: web mode, the search and the test for no articles
AfterSearch(q, out) ==
    IF IsRaise(out)
    THEN [pc |-> "done", results |-> NoResults, articles |-> << >>, ret |-> out]
    ELSE IF out.value.articles = << >>
    THEN [pc |-> "done", results |-> out.value, articles |-> << >>,
          ret |-> Return(WebFallbackResponse(q))]
    ELSE [pc |-> "summarizing", results |-> out.value,
          articles |-> out.value.articles, ret |-> NoRet]

Search ==
    /\ pc = "searching"
    /\ \E o \in BackendOutcomes(SelectedBackend(env, tavilyImportable),
                                WEB_MAX_RESULTS) :
         LET s == search_articles(env, tavilyImportable, query, WEB_MAX_RESULTS, o)
             n == AfterSearch(query, s.out)
         IN  /\ outs' = Append(outs, Outcome("search", o))
             /\ calls' = calls \o s.calls
             /\ pc' = n.pc
             /\ results' = n.results
             /\ articles' = n.articles
             /\ ret' = n.ret
             /\ http' = HttpOf(n.ret)
    /\ UNCHANGED <<config, direct, query, top_k, intent, rewritten, documents,
                   metadatas, answer>>

\* the summary step if an ungrounded summary fell back to the local path
AfterSummary_TryLocal(q, arts, o) ==
    IF IsRaise(o)
    THEN [pc |-> "done", answer |-> << >>, ret |-> o]
    ELSE IF ~WebGrounded(o.text)
    THEN [pc |-> "rewriting", answer |-> o.text, ret |-> NoRet]
    ELSE [pc |-> "done", answer |-> o.text,
          ret |-> Return(WebResponse(q, o.text, arts))]

\* web mode: the summary and the runtime safeguard on it
AfterSummary(q, arts, o) ==
    IF IsRaise(o)
    THEN [pc |-> "done", answer |-> << >>, ret |-> o]
    ELSE [pc |-> "done", answer |-> o.text,
          ret |-> Return(GroundWeb(q, o.text, arts))]

Summarize ==
    /\ pc = "summarizing"
    /\ \E o \in LLMOutcomes(SynthesizerOutputs) :
         LET n == AfterSummary(query, articles, o)
         IN  /\ outs' = Append(outs, Outcome("summary", o))
             /\ calls' = calls \o LLMCalls("summary",
                            [query |-> query, articles |-> FormatArticles(articles)], o)
             /\ pc' = n.pc
             /\ answer' = n.answer
             /\ ret' = n.ret
             /\ http' = HttpOf(n.ret)
    /\ UNCHANGED <<config, direct, query, top_k, intent, results, articles, rewritten,
                   documents, metadatas>>

\* STEP 3: local mode, the rewrite
AfterRewrite(o) ==
    IF IsRaise(o)
    THEN [pc |-> "done", rewritten |-> << >>, ret |-> o]
    ELSE [pc |-> "retrieving", rewritten |-> o.text, ret |-> NoRet]

Rewrite ==
    /\ pc = "rewriting"
    /\ \E o \in LLMOutcomes(RewriterOutputs) :
         LET n == AfterRewrite(o)
         IN  /\ outs' = Append(outs, Outcome("rewrite", o))
             /\ calls' = calls \o LLMCalls("rewrite", [query |-> query], o)
             /\ pc' = n.pc
             /\ rewritten' = n.rewritten
             /\ ret' = n.ret
             /\ http' = HttpOf(n.ret)
    /\ UNCHANGED <<config, direct, query, top_k, intent, results, articles, documents,
                   metadatas, answer>>

\* the retrieval step without the test for no documents
AfterRetrieve_NoCheck(q, o) ==
    IF IsRaise(o)
    THEN [pc |-> "done", documents |-> << >>, metadatas |-> << >>, ret |-> o]
    ELSE [pc |-> "answering",
          documents |-> [i \in 1..Len(o.ranking) |-> Passages[o.ranking[i]].doc],
          metadatas |-> [i \in 1..Len(o.ranking) |-> Passages[o.ranking[i]].meta],
          ret |-> NoRet]

\* local mode: the vector-store query and the test for no documents
AfterRetrieve(q, o) ==
    IF IsRaise(o)
    THEN [pc |-> "done", documents |-> << >>, metadatas |-> << >>, ret |-> o]
    ELSE LET docs  == [i \in 1..Len(o.ranking) |-> Passages[o.ranking[i]].doc]
             metas == [i \in 1..Len(o.ranking) |-> Passages[o.ranking[i]].meta]
         IN  IF docs = << >>
             THEN [pc |-> "done", documents |-> docs, metadatas |-> metas,
                   ret |-> Return(LocalEmptyResponse(q))]
             ELSE [pc |-> "answering", documents |-> docs, metadatas |-> metas,
                   ret |-> NoRet]

\* the vector-store query if it were made with the caller's own query
ChromaCalls_Original(text, k, o) ==
    IF IsRaise(o) /\ o.stage = "connect" THEN << >>
    ELSE << Call("chroma", [query_texts |-> <<query>>, n_results |-> k]) >>

\* the vector store is asked only if the connection and the collection
\* lookup did not raise
ChromaCalls(text, k, o) ==
    IF IsRaise(o) /\ o.stage = "connect" THEN << >>
    ELSE << Call("chroma", [query_texts |-> <<text>>, n_results |-> k]) >>

Retrieve ==
    /\ pc = "retrieving"
    /\ \E o \in ChromaOutcomes(top_k) :
         LET n == AfterRetrieve(query, o)
         IN  /\ outs' = Append(outs, Outcome("chroma", o))
             /\ calls' = calls \o ChromaCalls(rewritten, top_k, o)
             /\ pc' = n.pc
             /\ documents' = n.documents
             /\ metadatas' = n.metadatas
             /\ ret' = n.ret
             /\ http' = HttpOf(n.ret)
    /\ UNCHANGED <<config, direct, query, top_k, intent, results, articles, rewritten,
                   answer>>

\* local mode: the answer and the runtime safeguard on it
AfterAnswer(q, rw, docs, metas, o) ==
    IF IsRaise(o)
    THEN [pc |-> "done", answer |-> << >>, ret |-> o]
    ELSE [pc |-> "done", answer |-> o.text,
          ret |-> Return(GroundLocal(q, rw, o.text, docs, metas))]

Answer ==
    /\ pc = "answering"
    /\ \E o \in LLMOutcomes(SynthesizerOutputs) :
         LET n == AfterAnswer(query, rewritten, documents, metadatas, o)
         IN  /\ outs' = Append(outs, Outcome("answer", o))
             /\ calls' = calls \o LLMCalls("answer",
                            [query |-> query, docs |-> BuildContext(documents, metadatas)], o)
             /\ pc' = n.pc
             /\ answer' = n.answer
             /\ ret' = n.ret
             /\ http' = HttpOf(n.ret)
    /\ UNCHANGED <<config, direct, query, top_k, intent, results, articles, rewritten,
                   documents, metadatas>>

\* ------------------------------------------------------------------------
\* web_search.py called on its own
\* ------------------------------------------------------------------------
\* max_results a direct caller asks for
MaxResultsValues == 0..MaxRaw

\* search_articles(q, n) called by a user of the module; the module loads
\* whether or not the tavily package can be imported
DirectSearch(q, n) ==
    /\ pc = "idle"
    /\ \E o \in BackendOutcomes(SelectedBackend(env, tavilyImportable), n) :
         LET s == search_articles(env, tavilyImportable, q, n, o)
         IN  /\ calls' = calls \o s.calls
             /\ direct' = [fn |-> "search_articles", q |-> q, n |-> n,
                           o |-> o, out |-> s.out]
    /\ pc' = "done"
    /\ UNCHANGED <<config, query, top_k, locals, ret, http, outs>>

\* ------------------------------------------------------------------------
\* rag.py
\* ------------------------------------------------------------------------
\* the float 1.0; distances and scores are counted in tenths
ONE == 10

\* largest distance the similarity search hands back, in tenths
MaxDist == 25

\* distances of the collection's default (squared L2) space, never negative
DistanceValues == {0, 5, ONE, MaxDist}

\* the score with the clamp of the distance left out
Score_NoClamp(d) == ONE - d

\* 1.0 - min(float(d), 1.0)
Score(d) == ONE - (IF d < ONE THEN d ELSE ONE)

\* the id the ingestion gave a passage: year-page-chunk
PassageId(i) ==
    Passages[i].meta.report_year \o <<"-">> \o IntToStr(Passages[i].meta.page)
        \o <<"-","0">>

\* the distances of n ranked passages, nearest first
SortedDistances(n) ==
    { ds \in [1..n -> DistanceValues] :
        \A i \in 1..(n - 1) : ds[i] <= ds[i + 1] }

\* what the vector store can do for query_rag: raise, report an empty
\* collection, or hand back up to k ranked passages, nearest first
RagOutcomes(k) ==
    UNION { { [kind |-> "results", ranking |-> r, distances |-> ds] :
                ds \in SortedDistances(Len(r)) } :
            r \in Rankings(IF k < 0 THEN 0 ELSE k) }
    \cup { [kind |-> "empty"] }
    \cup { [kind |-> "raise", msg |-> m, stage |-> st] :
              m \in ErrorMessages, st \in {"connect", "query"} }

RagError(q, msg) ==
    [query |-> q, results |-> << >>, metadatas |-> << >>, scores |-> << >>,
     ids |-> << >>, error |-> msg]

\* query_rag(query_text, top_k), given what the vector store does; every
\* exception is caught
query_rag(q, k, o) ==
    IF IsRaise(o) THEN RagError(q, o.msg)
    ELSE IF o.kind = "empty" THEN RagError(q, <<"N","o"," ","d","o","c","u","m","e","n","t","s"," ","i","n"," ","c","o","l","l","e","c","t","i","o","n">>)
    ELSE [query |-> q,
          results |-> [i \in 1..Len(o.ranking) |-> Passages[o.ranking[i]].doc],
          metadatas |-> [i \in 1..Len(o.ranking) |-> Passages[o.ranking[i]].meta],
          scores |-> [i \in 1..Len(o.distances) |-> Score(o.distances[i])],
          ids |-> [i \in 1..Len(o.ranking) |-> PassageId(o.ranking[i])],
          total_docs |-> Len(Passages)]

\* the vector store is queried unless the connection raised or the
\* collection is empty
RagCalls(q, k, o) ==
    IF o.kind = "empty" \/ (IsRaise(o) /\ o.stage = "connect") THEN << >>
    ELSE << Call("chroma", [query_texts |-> <<q>>, n_results |-> k]) >>

\* query_rag(q, k) called by a user of the module
DirectRag(q, k) ==
    /\ pc = "idle"
    /\ \E o \in RagOutcomes(k) :
         /\ calls' = calls \o RagCalls(q, k, o)
         /\ direct' = [fn |-> "query_rag", q |-> q, k |-> k, o |-> o,
                       out |-> Return(query_rag(q, k, o))]
    /\ pc' = "done"
    /\ UNCHANGED <<config, query, top_k, locals, ret, http, outs>>

\* the request or call is over; nothing of it is kept for the next one
Finish ==
    /\ pc = "done"
    /\ pc' = "idle"
    /\ query' = << >>
    /\ top_k' = 5
    /\ intent' = << >>
    /\ results' = NoResults
    /\ articles' = << >>
    /\ rewritten' = << >>
    /\ documents' = << >>
    /\ metadatas' = << >>
    /\ answer' = << >>
    /\ ret' = NoRet
    /\ http' = NoHttp
    /\ calls' = << >>
    /\ outs' = << >>
    /\ direct' = NoDirect
    /\ UNCHANGED config

Next ==
    \/ \E q \in Queries, k \in TopKs : RunQuery(q, k)
    \/ Classify
    \/ Search
    \/ Summarize
    \/ Rewrite
    \/ Retrieve
    \/ Answer
    \/ \E q \in Queries, n \in MaxResultsValues : DirectSearch(q, n)
    \/ \E q \in Queries, k \in TopKs : DirectRag(q, k)
    \/ Finish

Spec == Init /\ [][Next]_vars

\* ------------------------------------------------------------------------
\* Properties
\* ------------------------------------------------------------------------
Returned == ret.kind = "return"

\* the collaborator op was invoked in the request being served
Did(op) == \E i \in DOMAIN outs : outs[i].op = op

\* what the collaborator op did
OutOf(op) == outs[CHOOSE i \in DOMAIN outs : outs[i].op = op].out

\* the collaborator op was invoked and handed back a result
Gave(op) == Did(op) /\ ~IsRaise(OutOf(op))

\* number of logged invocations whose name is in ops
Count(ops) == Cardinality({i \in DOMAIN calls : calls[i].op \in ops})

\* the raw results the selected search backend handed back, if any
RawResults ==
    IF ~Gave("search") THEN << >>
    ELSE LET o == OutOf("search")
         IN  IF SelectedBackend(env, tavilyImportable) = "tavily" THEN o.results
             ELSE IF SelectedBackend(env, tavilyImportable) = "google"
                     /\ o.attempts[Len(o.attempts)].kind = "dict"
             THEN o.attempts[Len(o.attempts)].organic
             ELSE << >>

\* the text of a raw result the relevance filter looks at
RawText(r) ==
    r.title \o <<" ">> \o (IF "content" \in DOMAIN r THEN r.content ELSE r.snippet)

\* a raw result mentions one of the fixed keywords, in any letter case
Relevant(r) ==
    \E i \in DOMAIN childsafe_keywords :
        Contains(childsafe_keywords[i], Lower(RawText(r)))

\* C1: a Response with mode "web" never has a documents or metadatas field,
\* and a Response with mode "local" never has an articles field.
Thm_C1 ==
    Returned =>
        /\ ret.value.mode \in {"web", "local"}
        /\ ret.value.mode = "web" =>
             {"documents", "metadatas"} \cap DOMAIN ret.value = {}
        /\ ret.value.mode = "local" => "articles" \notin DOMAIN ret.value

\* a web Response that carries the summary of at least one article
Wit_C1 ==
    /\ Returned
    /\ ret.value.mode = "web"
    /\ ret.value.articles # << >>

\* C2: when the vector store hands back zero documents, the Response is the
\* local one with exactly the fixed local fallback as answer and with no (or
\* empty) documents and metadatas, whatever top_k is.
Thm_C2 ==
    (Gave("chroma") /\ OutOf("chroma").ranking = << >>) =>
        /\ Returned
        /\ ret.value.mode = "local"
        /\ ret.value.answer = FALLBACK_LOCAL
        /\ "documents" \in DOMAIN ret.value => ret.value.documents = << >>
        /\ "metadatas" \in DOMAIN ret.value => ret.value.metadatas = << >>

\* the vector store was asked for two passages and handed back none
Wit_C2 ==
    /\ Gave("chroma")
    /\ OutOf("chroma").ranking = << >>
    /\ top_k = 2
    /\ Returned

\* C3: when the search backend hands back results and none of them passes
\* the relevance filter, the Response is the web one with exactly the fixed
\* web fallback as answer and an empty articles list.
Thm_C3 ==
    (RawResults # << >> /\ \A i \in DOMAIN RawResults : ~Relevant(RawResults[i])) =>
        /\ Returned
        /\ ret.value.mode = "web"
        /\ ret.value.answer = FALLBACK_WEB
        /\ ret.value.articles = << >>

\* Tavily handed back two results, neither about the organization
Wit_C3 ==
    /\ SelectedBackend(env, tavilyImportable) = "tavily"
    /\ Len(RawResults) = 2
    /\ \A i \in DOMAIN RawResults : ~Relevant(RawResults[i])
    /\ Returned

\* C4: on the web branch a summary without "childsafe" (in any letter case)
\* is replaced by the fixed web fallback and the articles are cleared; any
\* other summary is passed through unchanged with the filtered articles.
Thm_C4 ==
    Gave("summary") =>
        /\ Returned
        /\ ret.value.mode = "web"
        /\ IF ~Contains(S_childsafe, Lower(OutOf("summary").text))
           THEN /\ ret.value.answer = FALLBACK_WEB
                /\ ret.value.articles = << >>
           ELSE /\ ret.value.answer = OutOf("summary").text
                /\ ret.value.articles = articles
                /\ articles = SelectSeq(RawResults, Relevant)
                /\ articles # << >>

\* a summary naming the organization in capitals only is passed through
Wit_C4 ==
    /\ Gave("summary")
    /\ OutOf("summary").text = <<"C","H","I","L","D","S","A","F","E">>
    /\ Returned
    /\ ret.value.answer = <<"C","H","I","L","D","S","A","F","E">>

\* the answer has neither "childsafe" nor "report" in it, in any letter case
NoMarker(a) ==
    ~Contains(S_childsafe, Lower(a)) /\ ~Contains(S_report, Lower(a))

\* C5 as stated: on the local branch the Response answer is the fixed local
\* fallback exactly when the synthesized answer has neither marker, and an
\* answer with either marker is passed through unchanged.
Orig_C5 ==
    Gave("answer") =>
        /\ Returned
        /\ ret.value.answer = FALLBACK_LOCAL <=> NoMarker(OutOf("answer").text)
        /\ ~NoMarker(OutOf("answer").text) =>
             ret.value.answer = OutOf("answer").text

\* C5: on the local branch an answer with neither marker is replaced by the
\* fixed local fallback and an answer with either marker is passed through
\* unchanged; so the Response answer is the fallback exactly when the
\* synthesized answer has neither marker or is itself the fallback sentence.
Thm_C5 ==
    Gave("answer") =>
        /\ Returned
        /\ ret.value.mode = "local"
        /\ NoMarker(OutOf("answer").text) => ret.value.answer = FALLBACK_LOCAL
        /\ ~NoMarker(OutOf("answer").text) =>
             ret.value.answer = OutOf("answer").text
        /\ ret.value.answer = FALLBACK_LOCAL <=>
             \/ NoMarker(OutOf("answer").text)
             \/ OutOf("answer").text = FALLBACK_LOCAL

\* an answer naming only the organization is passed through unchanged
Wit_C5 ==
    /\ Gave("answer")
    /\ OutOf("answer").text = <<"C","h","i","l","d","S","a","f","e"," ","h","e","l","p","s",".">>
    /\ Returned
    /\ ret.value.answer = <<"C","h","i","l","d","S","a","f","e"," ","h","e","l","p","s",".">>

\* the request is on the web branch
OnWeb ==
    \/ pc \in {"searching", "summarizing"}
    \/ Did("search")

\* the request is on the local branch
OnLocal ==
    \/ pc \in {"rewriting", "retrieving", "answering"}
    \/ Did("rewrite")

\* C6: the web branch is taken if and only if the classifier's raw output,
\* trimmed and lower-cased, is exactly "web"; every other output takes the
\* local branch, and the Response's mode is the branch taken.
Thm_C6 ==
    Gave("intent") =>
        /\ OnWeb <=> Lower(Strip(OutOf("intent").text)) = S_web
        /\ OnLocal <=> Lower(Strip(OutOf("intent").text)) # S_web
        /\ Returned =>
             ret.value.mode = (IF Lower(Strip(OutOf("intent").text)) = S_web
                               THEN "web" ELSE "local")

\* the label "web." has put the request on the local branch
Wit_C6 ==
    /\ Gave("intent")
    /\ OutOf("intent").text = <<"w","e","b",".">>
    /\ pc = "rewriting"

\* C7 as stated: when the intent-classification call fails, the request
\* goes on as a local one and ends with a local-mode Response.
Orig_C7 ==
    (pc = "done" /\ Did("intent") /\ IsRaise(OutOf("intent"))) =>
        /\ Returned
        /\ ret.value.mode = "local"

\* C7: when the intent-classification call fails, the failure is raised to
\* the caller: the request ends at once without a Response, and neither the
\* rewriter, the vector store nor the web search is invoked.
Thm_C7 ==
    (Did("intent") /\ IsRaise(OutOf("intent"))) =>
        /\ pc = "done"
        /\ ret = OutOf("intent")
        /\ http.status = 500
        /\ Len(outs) = 1

\* the classifier call failed and the request is over
Wit_C7 ==
    /\ Did("intent")
    /\ IsRaise(OutOf("intent"))
    /\ pc = "done"

LLMPrompts == {"intent", "rewrite", "summary", "answer"}

\* C8: a failing language-model invocation is not repeated (classification,
\* rewriting and synthesis are each attempted at most once in a request),
\* ends the request without a Response, and is raised to the caller.
Thm_C8 ==
    /\ Count({"intent"}) <= 1
    /\ Count({"rewrite"}) <= 1
    /\ Count({"summary", "answer"}) <= 1
    /\ \A i \in DOMAIN outs :
         (outs[i].op \in LLMPrompts /\ IsRaise(outs[i].out)) =>
            /\ i = Len(outs)
            /\ pc = "done"
            /\ ret = outs[i].out
            /\ http = [status |-> 500]

\* the synthesis call of a local request failed
Wit_C8 ==
    /\ Did("answer")
    /\ IsRaise(OutOf("answer"))
    /\ Count({"intent"}) = 1
    /\ Count({"rewrite"}) = 1
    /\ Count({"answer"}) = 1
    /\ http.status = 500

\* the branch taken found nothing to ground an answer on
NoGrounding ==
    \/ Gave("search") /\ results # NoResults /\ results.articles = << >>
    \/ Gave("chroma") /\ OutOf("chroma").ranking = << >>

\* C9: when the branch taken finds no articles (web) or no documents
\* (local), the synthesis call is never made and the request ends with the
\* branch's fallback Response.
Thm_C9 ==
    NoGrounding =>
        /\ Count({"summary", "answer"}) = 0
        /\ ~Did("summary") /\ ~Did("answer")
        /\ pc = "done"
        /\ Returned
        /\ ret.value.answer =
             (IF Did("search") THEN FALLBACK_WEB ELSE FALLBACK_LOCAL)

\* a web search that found articles, none of them relevant
Wit_C9 ==
    /\ NoGrounding
    /\ RawResults # << >>
    /\ pc = "done"

SearchOps == {"tavily", "serpapi", "serpapi_legacy"}

\* C10: the classifier is invoked exactly once in a request, and a request
\* that enters the web search never invokes the rewriter or the vector
\* store, and the other way round.
Thm_C10 ==
    /\ Count({"intent"}) <= 1
    /\ (pc \notin {"idle", "classifying"} /\ query # << >>) =>
          Count({"intent"}) = 1
    /\ ~(Did("search") /\ (Did("rewrite") \/ Did("chroma")))
    /\ ~(Count(SearchOps) > 0 /\ Count({"rewrite", "chroma"}) > 0)
    /\ ~(OnWeb /\ OnLocal)

\* a web request whose summary failed the safeguard ended without any
\* invocation of the rewriter or the vector store
Wit_C10 ==
    /\ Gave("summary")
    /\ ~Contains(S_childsafe, Lower(OutOf("summary").text))
    /\ pc = "done"
    /\ Count({"intent"}) = 1
    /\ Count(SearchOps) > 0
    /\ Count({"rewrite", "chroma"}) = 0


\* C11: on the local branch the rewriter is always invoked, and before the
\* vector store; the vector store is queried with the rewritten string and
\* nothing else; the query field of every Response is the caller's query.
Thm_C11 ==
    /\ (pc \in {"retrieving", "answering"} \/ Did("chroma")) => Gave("rewrite")
    /\ \A i \in DOMAIN calls :
         (calls[i].op = "chroma" /\ direct = NoDirect) =>
            /\ \E j \in 1..(i - 1) : calls[j].op = "rewrite"
            /\ calls[i].arg.query_texts = <<OutOf("rewrite").text>>
            /\ OutOf("rewrite").text # query =>
                 calls[i].arg.query_texts # <<query>>
    /\ \A i \in DOMAIN outs :
         outs[i].op = "chroma" => \E j \in 1..(i - 1) : outs[j].op = "rewrite"
    /\ (Returned /\ ret.value.mode = "local") => Did("rewrite")
    /\ Returned => ret.value.query = query

\* a local Response built from passages found with the rewritten query
Wit_C11 ==
    /\ Returned
    /\ ret.value.mode = "local"
    /\ Count({"chroma"}) = 1
    /\ "rewritten" \in DOMAIN ret.value
    /\ ret.value.rewritten # ret.value.query
    /\ ret.value.documents # << >>

\* the passages and their metadata the vector store handed back
RetrievedDocs ==
    [i \in 1..Len(OutOf("chroma").ranking) |-> Passages[OutOf("chroma").ranking[i]].doc]

RetrievedMetas ==
    [i \in 1..Len(OutOf("chroma").ranking) |-> Passages[OutOf("chroma").ranking[i]].meta]

\* C19: when the local safeguard rejects the answer, only the answer is
\* replaced: the Response still carries the rewritten query and all the
\* retrieved documents and metadatas, so a local fallback answer does not
\* mean empty payload lists.
Thm_C19 ==
    (Gave("answer") /\ NoMarker(OutOf("answer").text)) =>
        /\ Returned
        /\ ret.value.mode = "local"
        /\ ret.value.answer = FALLBACK_LOCAL
        /\ DOMAIN ret.value =
             {"query", "mode", "rewritten", "answer", "documents", "metadatas"}
        /\ ret.value.rewritten = OutOf("rewrite").text
        /\ ret.value.documents = RetrievedDocs
        /\ ret.value.metadatas = RetrievedMetas
        /\ ret.value.documents # << >>

\* the safeguard rejected an answer drawn from two retrieved passages
Wit_C19 ==
    /\ Gave("answer")
    /\ NoMarker(OutOf("answer").text)
    /\ Returned
    /\ ret.value.answer = FALLBACK_LOCAL
    /\ Len(ret.value.documents) = 2
    /\ Len(ret.value.metadatas) = 2


\* the search mode the environment configures ("tavily" when it names none)
ConfiguredMode == Lower(getenv(env, "SEARCH_MODE", S_tavily))

HasKey(name) == name \in DOMAIN env /\ env[name] # << >>

\* the credential of the mode m is present
ModeKeyPresent(m) ==
    \/ m = S_tavily /\ HasKey("TAVILY_API_KEY")
    \/ m = S_google /\ HasKey("SERPAPI_API_KEY")

\* what search_articles returned, in the request or in a direct call
SearchReturned ==
    \/ direct.fn = "search_articles" /\ ~IsRaise(direct.out)
    \/ Gave("search") /\ results # NoResults

SearchValue ==
    IF direct.fn = "search_articles" THEN direct.out.value ELSE results

\* search_articles has run, whether it returned or raised
SearchRan == direct.fn = "search_articles" \/ Did("search")

\* the mode m decided every backend invocation and the configuration error
BackendFollows(m) ==
    SearchRan =>
        /\ Count({"tavily"}) > 0 => (m = S_tavily /\ HasKey("TAVILY_API_KEY"))
        /\ Count({"serpapi", "serpapi_legacy"}) > 0 =>
             (m = S_google /\ HasKey("SERPAPI_API_KEY"))
        /\ ~ModeKeyPresent(m) =>
             /\ Count(SearchOps) = 0
             /\ SearchReturned
             /\ SearchValue.answer = MSG_NO_KEYS
             /\ SearchValue.articles = << >>

\* C12 as stated: a backend is invoked only if it is the configured search
\* mode and its credential is present; when the configured mode's credential
\* is absent the fixed "No search API keys configured" message comes back
\* with no articles and no backend is invoked, whatever the configured mode,
\* the availability of the tavily package and the credentials are.
Orig_C12 == BackendFollows(ConfiguredMode)

\* the mode in effect: the configured one, but google when tavily is
\* configured and the tavily package cannot be imported
EffectiveMode ==
    IF ConfiguredMode = S_tavily /\ ~tavilyImportable THEN S_google
    ELSE ConfiguredMode

\* C12: a backend is invoked only if it is the mode in effect and its
\* credential is present; when the credential of the mode in effect is absent
\* the fixed message comes back with no articles and no backend is invoked.
\* The mode in effect is the configured one, except that google replaces
\* tavily when the tavily package cannot be imported.
Thm_C12 == BackendFollows(EffectiveMode)

\* google is configured, only the Tavily credential is set, and the search
\* came back with the fixed message
Wit_C12 ==
    /\ direct.fn = "search_articles"
    /\ ConfiguredMode = S_google
    /\ HasKey("TAVILY_API_KEY")
    /\ ~HasKey("SERPAPI_API_KEY")
    /\ direct.out = Return(SearchResult(direct.q, << >>, MSG_NO_KEYS))
    /\ calls = << >>

\* the first n of the raw results (all of them when there are fewer)
FirstN(raw, n) == SubSeq(raw, 1, IF n < Len(raw) THEN n ELSE Len(raw))

\* the raw results the backend handed back to a direct search_articles call
DirectRaw ==
    IF direct.fn # "search_articles" THEN << >>
    ELSE IF direct.o.kind = "results" THEN direct.o.results
    ELSE IF direct.o.kind = "attempts"
            /\ direct.o.attempts[Len(direct.o.attempts)].kind = "dict"
    THEN direct.o.attempts[Len(direct.o.attempts)].organic
    ELSE << >>

\* C17: the articles tavily_search / google_search return are exactly the
\* first max_results raw results that mention a keyword of the fixed set in
\* their lower-cased title and content/snippet, in their original order.
Thm_C17 ==
    /\ (direct.fn = "search_articles" /\ ~IsRaise(direct.out)) =>
          direct.out.value.articles =
             SelectSeq(FirstN(DirectRaw, direct.n), Relevant)
    /\ (Gave("search") /\ results # NoResults) =>
          results.articles =
             SelectSeq(FirstN(RawResults, WEB_MAX_RESULTS), Relevant)

\* google_search was asked for one result, got two, and kept the first
Wit_C17 ==
    /\ direct.fn = "search_articles"
    /\ direct.o.kind = "attempts"
    /\ direct.n = 1
    /\ Len(DirectRaw) = 2
    /\ Relevant(DirectRaw[1])
    /\ Relevant(DirectRaw[2])
    /\ direct.out.value.articles = <<DirectRaw[1]>>


\* the selected web-search backend failed: its API raised, or it handed
\* back nothing or a mapping without organic results
SearchProviderFailed ==
    /\ Did("search")
    /\ \/ IsRaise(OutOf("search"))
       \/ /\ OutOf("search").kind = "attempts"
          /\ LET last == OutOf("search").attempts[Len(OutOf("search").attempts)]
             IN  \/ IsRaise(last)
                 \/ last.kind = "none"
                 \/ last.kind = "dict" /\ ~last.has_organic

\* the vector store's connection, collection lookup or query raised
StoreFailed == Did("chroma") /\ IsRaise(OutOf("chroma"))

\* C13: whenever a retrieval provider fails, the failure is caught and
\* smart_query still ends with an empty-result-shaped fallback Response
\* instead of raising.
Claim_C13 ==
    (SearchProviderFailed \/ StoreFailed) =>
        /\ pc = "done"
        /\ Returned
        /\ ret.value.answer \in {FALLBACK_WEB, FALLBACK_LOCAL}
        /\ "articles" \in DOMAIN ret.value => ret.value.articles = << >>
        /\ "documents" \in DOMAIN ret.value => ret.value.documents = << >>

\* C15: when the credential of the search mode in effect is absent, the
\* Response of a web-classified query carries the configuration-error
\* explanation that search_articles produced, and nothing is raised.
Claim_C15 ==
    (Did("search") /\ ~ModeKeyPresent(EffectiveMode)) =>
        /\ pc = "done"
        /\ Returned
        /\ results.answer = MSG_NO_KEYS
        /\ Contains(MSG_NO_KEYS, ret.value.answer)


\* query_rag was called for top_k <= 0 on a reachable, non-empty collection
RagNonPositive ==
    /\ direct.fn = "query_rag"
    /\ direct.k <= 0
    /\ direct.o.kind # "empty"
    /\ ~(IsRaise(direct.o) /\ direct.o.stage = "connect")

\* the local branch queried a reachable collection with top_k <= 0
LocalNonPositive ==
    /\ Did("chroma")
    /\ top_k <= 0
    /\ ~(IsRaise(OutOf("chroma")) /\ OutOf("chroma").stage = "connect")

\* C14: for top_k = 0 or negative the local retrieval gives an empty result
\* set, handled as "no matches", never an error and never an exception, in
\* query_rag and on the local branch of smart_query.
Claim_C14 ==
    /\ RagNonPositive =>
         /\ ~IsRaise(direct.out)
         /\ direct.out.value.results = << >>
         /\ "error" \notin DOMAIN direct.out.value
    /\ LocalNonPositive =>
         /\ pc = "done"
         /\ ret = Return(LocalEmptyResponse(query))

\* C16: validating again a Response that went through the safeguard gives
\* the same Response, and each fixed fallback answer passes the check of its
\* own mode.
Thm_C16 ==
    /\ (Gave("summary") /\ Returned) =>
          /\ GroundWeb(query, ret.value.answer, ret.value.articles) = ret.value
          /\ ret.value.answer = FALLBACK_WEB => WebGrounded(ret.value.answer)
    /\ (Gave("answer") /\ Returned) =>
          /\ GroundLocal(query, ret.value.rewritten, ret.value.answer,
                         ret.value.documents, ret.value.metadatas) = ret.value
          /\ ret.value.answer = FALLBACK_LOCAL => LocalGrounded(ret.value.answer)

\* the safeguard replaced a summary by the web fallback
Wit_C16 ==
    /\ Gave("summary")
    /\ ~Contains(S_childsafe, Lower(OutOf("summary").text))
    /\ Returned
    /\ ret.value.answer = FALLBACK_WEB
    /\ GroundWeb(query, ret.value.answer, ret.value.articles) = ret.value

\* what query_rag handed back for ranked passages
RagScored == direct.fn = "query_rag" /\ direct.o.kind = "results"

\* C18: every score of query_rag is 1 - min(d, 1.0) for its distance d: it
\* lies between 0 and 1, is 1.0 for d = 0 and 0.0 for every d >= 1.
Thm_C18 ==
    RagScored =>
        /\ Len(direct.out.value.scores) = Len(direct.o.distances)
        /\ \A i \in DOMAIN direct.o.distances :
             /\ direct.out.value.scores[i] >= 0
             /\ direct.out.value.scores[i] <= ONE
             /\ direct.o.distances[i] = 0 => direct.out.value.scores[i] = ONE
             /\ direct.o.distances[i] >= ONE => direct.out.value.scores[i] = 0
             /\ direct.o.distances[i] < ONE =>
                  direct.out.value.scores[i] = ONE - direct.o.distances[i]

\* a result whose nearest passage is at distance 0 and whose other one is
\* at the largest distance (2.5)
Wit_C18 ==
    /\ RagScored
    /\ direct.o.distances = <<0, MaxDist>>
    /\ direct.out.value.scores = <<ONE, 0>>

====
